---- MODULE Spec2Model ----
(***************************************************************************)
(* A model of labyrinth-rs: the Map (grid of tiles with a per-movement-    *)
(* type cache of pathfinding projections, src/src/map_objects.rs) and its  *)
(* tiles (src/src/map_objects/tiles.rs).                                   *)
(***************************************************************************)
EXTENDS Integers, Sequences, FiniteSets, TLC

\* ------------------------------------------------------------------ bounds
\* Width and height of the grids the constructors are called with.
GridW == 3
GridH == 1
\* Longest move_types slice a query is called with.
MaxLen == 2
\* Number of tiles that may differ from the freshly constructed map.
MaxEdits == 1
\* Number of distinct move_types slices queried between two edits.
MaxQueries == 2

VARIABLES
    tiles,              \* Map.tiles: index -> Tile
    dimensions,         \* Map.dimensions: Point
    pathfinding_cache,  \* Map.pathfinding_cache: sorted Vec<MoveType> -> MapInternal
    built,              \* the tiles the constructor produced (history)
    queried,            \* move_types slices passed to find_path / dijkstra_map
                        \* since the last edit (history)
    res,                \* the last operation, its arguments and what it returned
    this_tile,          \* Tile::can_enter on its own: the tile it is called on,
    asked,              \* the move_types slice it is called with
    entered,            \* and what it returned
    labyrinth,          \* a Labyrinth2D: its tiles, dimensions and _filter
    lab_res,            \* the last Labyrinth2D operation and what it returned
    room,               \* a room shape: RectRoom, Hall or CompoundRoom
    other_room,         \* a second room shape, to compare with or to attach
    room_log,           \* the last room operation and what it returned
    mapgen,             \* MapGenerator2D: map, rooms, dimensions, dirty
    growth,             \* where a generate call stands, and its locals
    gen_log             \* the last call on the generator's rooms, what it wrote,
                        \* and whether the rooms changed since update_rooms (history)

mapVars == <<tiles, dimensions, pathfinding_cache, built, queried, res>>
tileVars == <<this_tile, asked, entered>>
labVars == <<labyrinth, lab_res>>
roomVars == <<room, other_room, room_log>>
genVars == <<mapgen, growth, gen_log>>
vars == <<mapVars, tileVars, labVars, roomVars, genVars>>

\* What the operations of one component leave alone: the other components.
otherThanMap == <<tileVars, labVars, roomVars, genVars>>
otherThanTile == <<mapVars, labVars, roomVars, genVars>>
otherThanLab == <<mapVars, tileVars, roomVars, genVars>>
otherThanRoom == <<mapVars, tileVars, labVars, genVars>>
otherThanGen == <<mapVars, tileVars, labVars, roomVars>>

\* --------------------------------------------------------------- MoveType
Walk == [tag |-> "Walk", name |-> ""]
Fly == [tag |-> "Fly", name |-> ""]
Swim == [tag |-> "Swim", name |-> ""]
Custom(n) == [tag |-> "Custom", name |-> n]

\* The custom movement names in play, in the byte order of their strings.
NameOrder == <<"Dig", "dig">>
Names == {NameOrder[i] : i \in 1..Len(NameOrder)}
NameRank(n) == CHOOSE i \in 1..Len(NameOrder) : NameOrder[i] = n

MoveTypes == {Walk, Fly, Swim} \cup {Custom(n) : n \in Names}

\* The movement types queries are made with. Swim is left to the tiles: a
\* query treats it exactly as it treats Fly (a variant without payload,
\* looked up in the tile's flag of the same name).
QueryTypes == {Walk, Fly, Custom("dig")}

\* #[derive(Ord)]: by variant in declaration order, then by the payload.
VariantIndex(m) ==
    CASE m.tag = "Walk" -> 0
      [] m.tag = "Fly" -> 1
      [] m.tag = "Swim" -> 2
      [] m.tag = "Custom" -> 3

MoveLess(a, b) ==
    \/ VariantIndex(a) < VariantIndex(b)
    \/ /\ a.tag = "Custom"
       /\ b.tag = "Custom"
       /\ NameRank(a.name) < NameRank(b.name)

\* Vec::sort on a Vec<MoveType>.
InsertSorted(x, s) ==
    SelectSeq(s, LAMBDA e : ~MoveLess(x, e)) \o <<x>> \o SelectSeq(s, LAMBDA e : MoveLess(x, e))

RECURSIVE sort(_)
sort(s) == IF s = <<>> THEN <<>> ELSE InsertSorted(Head(s), sort(Tail(s)))

\* The slices a caller passes as move_types.
CapSeqs == UNION {[1..n -> QueryTypes] : n \in 0..MaxLen}

\* ------------------------------------------------------------------- Tile
Absent == "absent"
NoCustom == [n \in Names |-> Absent]

Tile_wall ==
    [kind |-> "wall", opaque |-> TRUE, walk |-> FALSE, fly |-> FALSE, swim |-> FALSE,
     other_movement |-> NoCustom]

Tile_floor ==
    [kind |-> "floor", opaque |-> FALSE, walk |-> TRUE, fly |-> TRUE, swim |-> FALSE,
     other_movement |-> NoCustom]

Tile_water ==
    [kind |-> "water", opaque |-> FALSE, walk |-> FALSE, fly |-> TRUE, swim |-> TRUE,
     other_movement |-> NoCustom]

Tile_lava ==
    [kind |-> "lava", opaque |-> FALSE, walk |-> FALSE, fly |-> TRUE, swim |-> FALSE,
     other_movement |-> NoCustom]

Tile_chasm ==
    [kind |-> "chasm", opaque |-> FALSE, walk |-> FALSE, fly |-> TRUE, swim |-> FALSE,
     other_movement |-> NoCustom]

\* str::to_lowercase on the names in play.
to_lowercase(s) == IF s = "Dig" THEN "dig" ELSE s

\* TileBuilder::kind
TileBuilder_kind(t, kind) == [t EXCEPT !.kind = to_lowercase(kind)]

\* TileBuilder::property: entry(prop).or_insert(value)
TileBuilder_property(t, prop, value) ==
    LET lcase_prop == to_lowercase(prop)
    IN IF lcase_prop \in Names /\ t.other_movement[lcase_prop] = Absent
       THEN [t EXCEPT !.other_movement[lcase_prop] = IF value THEN "true" ELSE "false"]
       ELSE t

\* TileBuilder::wall().kind("rubble").property("dig", true).build()
Tile_rubble == TileBuilder_property(TileBuilder_kind(Tile_wall, "rubble"), "dig", TRUE)

\* The tiles an edit may write.
TileInputs == {Tile_wall, Tile_floor, Tile_water, Tile_lava, Tile_rubble}

Ok(v) == [ok |-> TRUE, val |-> v, err |-> ""]
Err(e) == [ok |-> FALSE, val |-> FALSE, err |-> e]

\* One element of the map() in Tile::can_enter.
MoveAllowed(tile, move_type) ==
    CASE move_type.tag = "Walk" -> Ok(tile.walk)
      [] move_type.tag = "Fly" -> Ok(tile.fly)
      [] move_type.tag = "Swim" -> Ok(tile.swim)
      [] move_type.tag = "Custom" ->
            IF move_type.name \in Names /\ tile.other_movement[move_type.name] # Absent
            THEN Ok(tile.other_movement[move_type.name] = "true")
            ELSE Err(move_type.name)

\* Tile::can_enter: Err of the first undefined custom movement type, else
\* Ok(any of the looked-up flags).
can_enter(tile, move_types) ==
    LET resvec == [i \in 1..Len(move_types) |-> MoveAllowed(tile, move_types[i])]
        bad == {i \in 1..Len(move_types) : ~resvec[i].ok}
    IN IF bad # {}
       THEN resvec[CHOOSE i \in bad : \A j \in bad : i <= j]
       ELSE Ok(\E i \in 1..Len(move_types) : resvec[i].val)

\* ------------------------------------------------------------ Algorithm2D
Point(x, y) == [x |-> x, y |-> y]
PointAdd(p, q) == Point(p.x + q.x, p.y + q.y)

\* Bounds that forget the right edge.
in_bounds_no_right_edge(dims, pt) == pt.x >= 0 /\ pt.y >= 0 /\ pt.y < dims.y

in_bounds(dims, pt) == pt.x >= 0 /\ pt.x < dims.x /\ pt.y >= 0 /\ pt.y < dims.y
point2d_to_index(dims, pt) == pt.y * dims.x + pt.x
index_to_point2d(dims, idx) == Point(idx % dims.x, idx \div dims.x)

Indices(dims) == 0..(dims.x * dims.y - 1)
Points(dims) == {Point(x, y) : x \in 0..(dims.x - 1), y \in 0..(dims.y - 1)}

deltas == <<Point(-1, 0), Point(0, -1), Point(1, 0), Point(0, 1)>>

\* BaseMap::get_available_exits for Map: the walkable 4-neighbours.
Map_get_available_exits(tls, dims, idx) ==
    LET start == index_to_point2d(dims, idx)
        pts == [i \in 1..Len(deltas) |-> PointAdd(start, deltas[i])]
        inb == SelectSeq(pts, LAMBDA pt : in_bounds(dims, pt))
        pos == [i \in 1..Len(inb) |-> point2d_to_index(dims, inb[i])]
        open == SelectSeq(pos, LAMBDA p : tls[p].walk)
    IN [i \in 1..Len(open) |-> <<open[i], 1>>]

\* ------------------------------------------------------------ MapInternal
NoProj == [opaque |-> <<>>, enterable |-> <<>>, dimensions |-> Point(0, 0)]

\* MapInternal::from_map
from_map(tls, dims, move_types) ==
    LET n == dims.x * dims.y
        each == [i \in 0..(n - 1) |-> can_enter(tls[i], move_types)]
        bad == {i \in 0..(n - 1) : ~each[i].ok}
    IN IF bad # {}
       THEN Err(each[CHOOSE i \in bad : \A j \in bad : i <= j].err)
       ELSE Ok([opaque |-> [i \in 0..(n - 1) |-> tls[i].opaque],
                enterable |-> [i \in 0..(n - 1) |-> each[i].val],
                dimensions |-> dims])

\* BaseMap::get_available_exits for MapInternal: the enterable 4-neighbours.
MapInternal_get_available_exits(internal, idx) ==
    LET start == index_to_point2d(internal.dimensions, idx)
        pts == [i \in 1..Len(deltas) |-> PointAdd(start, deltas[i])]
        inb == SelectSeq(pts, LAMBDA pt : in_bounds(internal.dimensions, pt))
        pos == [i \in 1..Len(inb) |-> point2d_to_index(internal.dimensions, inb[i])]
        open == SelectSeq(pos, LAMBDA p : internal.enterable[p])
    IN [i \in 1..Len(open) |-> <<open[i], 1>>]

\* ----------------------------------------------------------- a_star_search
\* bracket_pathfinding::a_star_search pops the start node, expands every
\* popped node with get_available_exits and reports success when it pops
\* the end node; the 65536-step budget is never reached on these grids.
Successors(exits, q) == {exits[q][i][1] : i \in 1..Len(exits[q])}

RECURSIVE Expand(_, _, _)
Expand(closed, open, exits) ==
    IF open = {} THEN closed
    ELSE LET next == UNION {Successors(exits, q) : q \in open}
         IN Expand(closed \cup open, next \ (closed \cup open), exits)

a_star_search(start, end, exits) ==
    [success |-> end \in Expand({}, {start}, exits), destination |-> end]

\* -------------------------------------------------------------------- Map
EmptyCache == [k \in {} |-> NoProj]

\* Map::new / Map::new_from_dims: all walls.
Map_new(width, height) ==
    [tiles |-> [i \in 0..(width * height - 1) |-> Tile_wall],
     dimensions |-> Point(width, height),
     pathfinding_cache |-> EmptyCache]

\* Map::new_empty: all floors.
Map_new_empty(width, height) ==
    [tiles |-> [i \in 0..(width * height - 1) |-> Tile_floor],
     dimensions |-> Point(width, height),
     pathfinding_cache |-> EmptyCache]

\* The key get_from_cache_or_add looks up: the slice, copied and sorted.
\* The key without the sort.
unsorted_key(move_types) == move_types

CacheKey(move_types) == sort(move_types)

\* Map::get_from_cache_or_add: the cache afterwards and the projection
\* handed back, or the error of from_map (nothing is inserted then).
get_from_cache_or_add(cache, tls, dims, move_types) ==
    LET move_types_vec == CacheKey(move_types)
        projection == from_map(tls, dims, move_types_vec)
    IN IF move_types_vec \notin DOMAIN cache
       THEN IF ~projection.ok
            THEN [ok |-> FALSE, cache |-> cache, val |-> NoProj, err |-> projection.err]
            ELSE [ok |-> TRUE,
                  cache |-> [k \in DOMAIN cache \cup {move_types_vec} |->
                                IF k = move_types_vec THEN projection.val ELSE cache[k]],
                  val |-> projection.val, err |-> ""]
       ELSE [ok |-> TRUE, cache |-> cache, val |-> cache[move_types_vec], err |-> ""]

\* A test that never takes the walk-only branch.
never_only_walk(move_types) == FALSE

\* The test `move_types == [MoveType::Walk]` of find_path and dijkstra_map.
is_only_walk(move_types) == move_types = <<Walk>>

GridExits == [i \in Indices(dimensions) |-> Map_get_available_exits(tiles, dimensions, i)]
InternalExits(internal) ==
    [i \in Indices(internal.dimensions) |-> MapInternal_get_available_exits(internal, i)]

\* What an operation leaves in `res`.
Result(op, start, end, move_types, ok, success, proj, changed) ==
    [op |-> op, start |-> start, end |-> end, move_types |-> move_types, ok |-> ok,
     success |-> success, proj |-> proj, had |-> Cardinality(DOMAIN pathfinding_cache),
     changed |-> changed]

NoPoint == Point(-1, -1)

\* A query with a slice not yet queried since the last edit needs room in
\* the query budget.
QueryAllowed(move_types) == move_types \in queried \/ Cardinality(queried) < MaxQueries

\* Map::find_path_walk
find_path_walk(start, end) ==
    LET path == a_star_search(point2d_to_index(dimensions, start),
                              point2d_to_index(dimensions, end), GridExits)
    IN /\ res' = Result("find_path_walk", start, end, <<>>, TRUE, path.success, NoProj, FALSE)
       /\ UNCHANGED <<tiles, dimensions, pathfinding_cache, built, queried, otherThanMap>>

\* Map::find_path
find_path(start, end, move_types) ==
    /\ QueryAllowed(move_types)
    /\ queried' = queried \cup {move_types}
    /\ IF is_only_walk(move_types)
       THEN LET path == a_star_search(point2d_to_index(dimensions, start),
                                      point2d_to_index(dimensions, end), GridExits)
            IN /\ res' = Result("find_path", start, end, move_types, TRUE, path.success,
                                NoProj, FALSE)
               /\ UNCHANGED pathfinding_cache
       ELSE LET got == get_from_cache_or_add(pathfinding_cache, tiles, dimensions, move_types)
                internal_map == got.val
                path == a_star_search(point2d_to_index(internal_map.dimensions, start),
                                      point2d_to_index(internal_map.dimensions, end),
                                      InternalExits(internal_map))
            IN /\ pathfinding_cache' = got.cache
               /\ res' = IF got.ok
                         THEN Result("find_path", start, end, move_types, TRUE, path.success,
                                     internal_map, FALSE)
                         ELSE Result("find_path", start, end, move_types, FALSE, FALSE,
                                     NoProj, FALSE)
    /\ UNCHANGED <<tiles, dimensions, built, otherThanMap>>

\* Map::dijkstra_map_walk
dijkstra_map_walk(start) ==
    /\ res' = Result("dijkstra_map_walk", start, NoPoint, <<>>, TRUE, FALSE, NoProj, FALSE)
    /\ UNCHANGED <<tiles, dimensions, pathfinding_cache, built, queried, otherThanMap>>

\* dijkstra_map that also turns the start cell into a floor tile.
dijkstra_map_flooring_start(start, move_types) ==
    /\ QueryAllowed(move_types)
    /\ queried' = queried \cup {move_types}
    /\ tiles' = [tiles EXCEPT ![point2d_to_index(dimensions, start)] = Tile_floor]
    /\ IF is_only_walk(move_types)
       THEN /\ res' = Result("dijkstra_map", start, NoPoint, move_types, TRUE, FALSE,
                             NoProj, FALSE)
            /\ UNCHANGED pathfinding_cache
       ELSE LET got == get_from_cache_or_add(pathfinding_cache, tiles, dimensions, move_types)
            IN /\ pathfinding_cache' = got.cache
               /\ res' = Result("dijkstra_map", start, NoPoint, move_types, got.ok, FALSE,
                                got.val, FALSE)
    /\ UNCHANGED <<dimensions, built, otherThanMap>>

\* Map::dijkstra_map
dijkstra_map(start, move_types) ==
    /\ QueryAllowed(move_types)
    /\ queried' = queried \cup {move_types}
    /\ IF is_only_walk(move_types)
       THEN /\ res' = Result("dijkstra_map", start, NoPoint, move_types, TRUE, FALSE,
                             NoProj, FALSE)
            /\ UNCHANGED pathfinding_cache
       ELSE LET got == get_from_cache_or_add(pathfinding_cache, tiles, dimensions, move_types)
            IN /\ pathfinding_cache' = got.cache
               /\ res' = Result("dijkstra_map", start, NoPoint, move_types, got.ok, FALSE,
                                got.val, FALSE)
    /\ UNCHANGED <<tiles, dimensions, built, otherThanMap>>

Differing(tls) == Cardinality({i \in DOMAIN tls : tls[i] # built[i]})

\* set_tile_at without the `pathfinding_cache.clear()`.
set_tile_at_keeping_cache(loc, tile) ==
    LET idx == point2d_to_index(dimensions, loc)
    IN /\ tiles' = [tiles EXCEPT ![idx] = tile]
       /\ Differing(tiles') <= MaxEdits
       /\ queried' = {}
       /\ res' = Result("set_tile_at", loc, NoPoint, <<>>, TRUE, FALSE, NoProj,
                        tiles[idx] # tile)
       /\ UNCHANGED <<pathfinding_cache, dimensions, built, otherThanMap>>

\* set_tile_at clearing the cache only when the tile stored differs.
set_tile_at_clearing_on_change(loc, tile) ==
    LET idx == point2d_to_index(dimensions, loc)
    IN /\ tiles' = [tiles EXCEPT ![idx] = tile]
       /\ Differing(tiles') <= MaxEdits
       /\ pathfinding_cache' = IF tiles[idx] # tile THEN EmptyCache ELSE pathfinding_cache
       /\ queried' = {}
       /\ res' = Result("set_tile_at", loc, NoPoint, <<>>, TRUE, FALSE, NoProj,
                        tiles[idx] # tile)
       /\ UNCHANGED <<dimensions, built, otherThanMap>>

\* Map::set_tile_at
set_tile_at(loc, tile) ==
    LET idx == point2d_to_index(dimensions, loc)
    IN /\ tiles' = [tiles EXCEPT ![idx] = tile]
       /\ Differing(tiles') <= MaxEdits
       /\ pathfinding_cache' = EmptyCache
       /\ queried' = {}
       /\ res' = Result("set_tile_at", loc, NoPoint, <<>>, TRUE, FALSE, NoProj,
                        tiles[idx] # tile)
       /\ UNCHANGED <<dimensions, built, otherThanMap>>

\* Map::set_floor, set_wall, set_water, set_lava
set_floor(loc) == set_tile_at(loc, Tile_floor)
set_wall(loc) == set_tile_at(loc, Tile_wall)
set_water(loc) == set_tile_at(loc, Tile_water)
set_lava(loc) == set_tile_at(loc, Tile_lava)

\* ---------------------------------------------------------- specification
Constructed ==
    {Map_new(GridW, GridH), Map_new_empty(GridW, GridH)}

NoResult ==
    [op |-> "new", start |-> NoPoint, end |-> NoPoint, move_types |-> <<>>,
     ok |-> TRUE, success |-> FALSE, proj |-> NoProj, had |-> 0, changed |-> FALSE]

NotCalled == [ok |-> FALSE, val |-> FALSE, err |-> "not called"]

\* The components at rest.
NoLabyrinth == [tiles |-> <<>>, dimensions |-> Point(0, 0), filter |-> <<>>]
LabIdle == labyrinth = NoLabyrinth /\ lab_res = [op |-> "none"]
NoRoom == [kind |-> "none"]
RoomIdle == room = NoRoom /\ other_room = NoRoom /\ room_log = [op |-> "none"]
NoGrowth == [pc |-> "none"]
GenIdle == mapgen = [dirty |-> FALSE] /\ growth = NoGrowth /\ gen_log = [op |-> "none"]
TileIdle == this_tile = Tile_wall /\ asked = <<>> /\ entered = NotCalled

Init ==
    /\ GenIdle
    /\ TileIdle
    /\ LabIdle
    /\ RoomIdle
    /\ \E m \in Constructed :
        /\ tiles = m.tiles
        /\ dimensions = m.dimensions
        /\ pathfinding_cache = m.pathfinding_cache
        /\ built = m.tiles
        /\ queried = {}
        /\ res = NoResult

\* Queries start in the first cell and end there or in the last cell.
QueryStarts(dims) == {Point(0, 0)}
QueryEnds(dims) == {Point(0, 0), Point(dims.x - 1, dims.y - 1)}

FindPathWalk == \E start \in QueryStarts(dimensions), end \in QueryEnds(dimensions) : find_path_walk(start, end)
FindPath == \E start \in QueryStarts(dimensions), end \in QueryEnds(dimensions),
                 move_types \in CapSeqs :
                find_path(start, end, move_types)
DijkstraMapWalk == \E start \in QueryStarts(dimensions) : dijkstra_map_walk(start)
DijkstraMap == \E start \in QueryStarts(dimensions), move_types \in CapSeqs :
                   dijkstra_map(start, move_types)
SetTileAt == \E loc \in Points(dimensions), tile \in TileInputs : set_tile_at(loc, tile)
SetFloor == \E loc \in Points(dimensions) : set_floor(loc)
SetWall == \E loc \in Points(dimensions) : set_wall(loc)
SetWater == \E loc \in Points(dimensions) : set_water(loc)
SetLava == \E loc \in Points(dimensions) : set_lava(loc)

MapNext ==
    \/ FindPathWalk
    \/ FindPath
    \/ DijkstraMapWalk
    \/ DijkstraMap
    \/ SetTileAt
    \/ SetFloor
    \/ SetWall
    \/ SetWater
    \/ SetLava

Next == MapNext

Spec == Init /\ [][Next]_vars

\* ------------------------------------------------ Tile::can_enter on its own
MaxTileLen == 2
TileSlices == UNION {[1..n -> MoveTypes] : n \in 0..MaxTileLen}
Tile_sealed == TileBuilder_property(TileBuilder_kind(Tile_floor, "sealed"), "dig", FALSE)
TileArgs == TileInputs \cup {Tile_chasm, Tile_sealed}

MapIdle ==
    LET m == Map_new(GridW, GridH)
    IN /\ tiles = m.tiles
       /\ dimensions = m.dimensions
       /\ pathfinding_cache = m.pathfinding_cache
       /\ built = m.tiles
       /\ queried = {}
       /\ res = NoResult

TileInit ==
    /\ GenIdle
    /\ MapIdle
    /\ LabIdle
    /\ RoomIdle
    /\ this_tile \in TileArgs
    /\ asked \in TileSlices
    /\ entered = NotCalled

CanEnter ==
    /\ entered = NotCalled
    /\ entered' = can_enter(this_tile, asked)
    /\ UNCHANGED <<this_tile, asked, otherThanTile>>

\* Tile::add_movetype (labyrinth_map): entry(prop).or_insert(value)
Tile_add_movetype(t, movtype, value) ==
    LET prop == to_lowercase(movtype)
    IN IF t.other_movement[prop] = Absent
       THEN [t EXCEPT !.other_movement[prop] = IF value THEN "true" ELSE "false"]
       ELSE t

AddMovetype ==
    \E movtype \in Names, value \in BOOLEAN :
        /\ entered = NotCalled
        /\ this_tile' = Tile_add_movetype(this_tile, movtype, value)
        /\ UNCHANGED <<asked, entered, otherThanTile>>

TileNext == CanEnter \/ AddMovetype

TileSpec == TileInit /\ [][TileNext]_vars

\* ------------------------------------------- get_available_exits on its own
\* Maps of ExitW x ExitH tiles, every tile one of these.
ExitW == 3
ExitH == 2
ExitTiles == {Tile_floor, Tile_water, Tile_rubble}
ExitSlices == UNION {[1..n -> {Walk, Swim, Custom("dig")}] : n \in 0..MaxLen}

\* A Map after Map::new and one set_tile_at per cell.
ExitsInit ==
    /\ GenIdle
    /\ TileIdle
    /\ LabIdle
    /\ RoomIdle
    /\ dimensions = Map_new(ExitW, ExitH).dimensions
    /\ tiles \in [Indices(dimensions) -> ExitTiles]
    /\ pathfinding_cache = EmptyCache
    /\ built = tiles
    /\ queried = {}
    /\ res = NoResult

\* What a neighbour expansion leaves in `res`.
ExitsResult(op, idx, move_types, ok, exits) ==
    [op |-> op, idx |-> idx, move_types |-> move_types, ok |-> ok, exits |-> exits]

\* BaseMap::get_available_exits called on the Map.
MapExits ==
    \E idx \in Indices(dimensions) :
        /\ res = NoResult
        /\ res' = ExitsResult("Map::get_available_exits", idx, <<Walk>>, TRUE,
                              Map_get_available_exits(tiles, dimensions, idx))
        /\ UNCHANGED <<tiles, dimensions, pathfinding_cache, built, queried, otherThanMap>>

\* BaseMap::get_available_exits called on the projection that
\* MapInternal::from_map builds for the slice, when it builds one.
ProjectionExits ==
    \E idx \in Indices(dimensions), move_types \in ExitSlices :
        LET projection == from_map(tiles, dimensions, move_types)
        IN /\ res = NoResult
           /\ res' = IF projection.ok
                     THEN ExitsResult("MapInternal::get_available_exits", idx, move_types,
                                      TRUE,
                                      MapInternal_get_available_exits(projection.val, idx))
                     ELSE ExitsResult("MapInternal::from_map", idx, move_types, FALSE, <<>>)
           /\ UNCHANGED <<tiles, dimensions, pathfinding_cache, built, queried, otherThanMap>>

ExitsNext == MapExits \/ ProjectionExits

ExitsSpec == ExitsInit /\ [][ExitsNext]_vars

\* ------------------------------------------------------------ Labyrinth2D
MaxSide == 3
Sides == 2..MaxSide

\* Labyrinth2D::new: all walls.
Labyrinth2D_new(width, height) ==
    [tiles |-> [i \in 0..(width * height - 1) |-> Tile_wall],
     dimensions |-> Point(width, height),
     filter |-> <<>>]

\* Labyrinth2D::new_empty: all floors.
Labyrinth2D_new_empty(width, height) ==
    [tiles |-> [i \in 0..(width * height - 1) |-> Tile_floor],
     dimensions |-> Point(width, height),
     filter |-> <<>>]

\* Labyrinth2D::new_walled: floors, and walls where the index tests say so.
Labyrinth2D_new_walled(width, height) ==
    [tiles |-> [i \in 0..(width * height - 1) |->
                   IF \/ i < width
                      \/ i > (width * height) - width
                      \/ i % height = 0
                      \/ i % height = width - 1
                   THEN Tile_wall
                   ELSE Tile_floor],
     dimensions |-> Point(width, height),
     filter |-> <<>>]

\* Labyrinth2D::new_from_dims, new_walled_from_dims
Labyrinth2D_new_from_dims(dims) == Labyrinth2D_new(dims.x, dims.y)
Labyrinth2D_new_walled_from_dims(dims) == Labyrinth2D_new_walled(dims.x, dims.y)

\* Labyrinth2D::set_tile_at
Labyrinth2D_set_tile_at(lab, loc, tile) ==
    [lab EXCEPT !.tiles[point2d_to_index(lab.dimensions, loc)] = tile]

LabInit ==
    /\ GenIdle
    /\ MapIdle
    /\ TileIdle
    /\ RoomIdle
    /\ \E width \in Sides, height \in Sides :
          /\ labyrinth \in {Labyrinth2D_new(width, height),
                            Labyrinth2D_new_empty(width, height)}
          /\ lab_res = [op |-> "new", width |-> width, height |-> height]

\* A labyrinth is replaced by a walled one of some size.
NewWalled ==
    \E width \in Sides, height \in Sides :
        /\ labyrinth' = Labyrinth2D_new_walled(width, height)
        /\ lab_res' = [op |-> "new_walled", width |-> width, height |-> height]
        /\ UNCHANGED otherThanLab

LabSetTileAt ==
    \E loc \in Points(labyrinth.dimensions), tile \in {Tile_floor, Tile_wall} :
        /\ labyrinth' = Labyrinth2D_set_tile_at(labyrinth, loc, tile)
        /\ lab_res' = [op |-> "set_tile_at", loc |-> loc]
        /\ UNCHANGED otherThanLab

LabNext == NewWalled \/ LabSetTileAt

LabSpec == LabInit /\ [][LabNext]_vars

\* ------------------------------------------------------------------ rooms
\* bracket_geometry::Rect: with_exact, with_size, width, height, point_set
\* (the points with x1 <= x < x2 and y1 <= y < y2).
Rect_with_exact(x1, y1, x2, y2) == [x1 |-> x1, y1 |-> y1, x2 |-> x2, y2 |-> y2]
Rect_with_size(x, y, w, h) == Rect_with_exact(x, y, x + w, y + h)
Abs(n) == IF n < 0 THEN -n ELSE n
Rect_width(r) == Abs(r.x2 - r.x1)
Rect_height(r) == Abs(r.y2 - r.y1)
Rect_point_set(r) == {Point(x, y) : x \in r.x1..(r.x2 - 1), y \in r.y1..(r.y2 - 1)}

PointNeg(p) == Point(-p.x, -p.y)

\* RectRoom::new
RectRoom_new(w, h) == [kind |-> "RectRoom", internal |-> Rect_with_size(0, 0, w, h)]

\* Room for RectRoom: floor, walls, borders
RectRoom_floor(rm) == Rect_point_set(rm.internal)

RectRoom_walls(rm) ==
    LET r == rm.internal
    IN UNION {{Point(x, r.y1 - 1), Point(x, r.y2 + 1)} : x \in r.x1..r.x2}
         \cup UNION {{Point(r.x1 - 1, y), Point(r.x2 + 1, y)} : y \in r.y1..r.y2}

RectRoom_borders(rm) ==
    LET r == rm.internal
    IN RectRoom_walls(rm)
         \cup {Point(x, y) : x \in {r.x1 - 1, r.x2 + 1}, y \in {r.y1 - 1, r.y2 + 1}}

\* Room for RectRoom: mirror, rotate_left, rotate_right, shift
RectRoom_mirror(rm) ==
    LET old == rm.internal
    IN [rm EXCEPT !.internal = Rect_with_exact(-old.x2, old.y1, -old.x1, old.y2)]

\* A left rotation that negates the corners without swapping them.
RectRoom_rotate_left_unswapped(rm) ==
    LET old == rm.internal
    IN [rm EXCEPT !.internal = Rect_with_exact(old.y1, -old.x1, old.y2, -old.x2)]

RectRoom_rotate_left(rm) ==
    LET old == rm.internal
    IN [rm EXCEPT !.internal = Rect_with_exact(old.y1, -old.x2, old.y2, -old.x1)]

RectRoom_rotate_right(rm) ==
    LET old == rm.internal
    IN [rm EXCEPT !.internal = Rect_with_exact(-old.y2, old.x1, -old.y1, old.x2)]

RectRoom_shift(rm, offset) ==
    LET old == rm.internal
    IN [rm EXCEPT !.internal = Rect_with_size(old.x1 + offset.x, old.y1 + offset.y,
                                              Rect_width(old), Rect_height(old))]

\* Hall::new_horizontal, new_vertical, endpoint
Hall_new_horizontal(length, thickness) ==
    [kind |-> "Hall", start |-> Point(0, 0), horizontal |-> TRUE, length |-> length,
     thickness |-> thickness]
Hall_new_vertical(length, thickness) ==
    [kind |-> "Hall", start |-> Point(0, 0), horizontal |-> FALSE, length |-> length,
     thickness |-> thickness]
Hall_endpoint(hall) ==
    PointAdd(hall.start,
             IF hall.horizontal THEN Point(0, hall.length) ELSE Point(hall.length, 0))

\* bracket_geometry::line2d_bresenham between two points of one row or one
\* column (the only lines a Hall draws): every point from one to the other.
Min(a, b) == IF a <= b THEN a ELSE b
Max(a, b) == IF a >= b THEN a ELSE b
line2d_bresenham(a, b) ==
    {Point(x, y) : x \in Min(a.x, b.x)..Max(a.x, b.x), y \in Min(a.y, b.y)..Max(a.y, b.y)}

\* Room for Hall: floor, walls, borders
Hall_floor(hall) == line2d_bresenham(hall.start, Hall_endpoint(hall))

Hall_walls(hall) ==
    LET end == Hall_endpoint(hall)
        side_wall_starts == IF hall.horizontal
                            THEN {Point(0, 1), Point(0, -1)}
                            ELSE {Point(1, 0), Point(-1, 0)}
        start_wall == IF hall.horizontal
                      THEN IF hall.length < 0 THEN Point(1, 0) ELSE Point(-1, 0)
                      ELSE IF hall.length < 0 THEN Point(0, 1) ELSE Point(0, -1)
        end_wall == IF hall.horizontal
                    THEN IF hall.length < 0 THEN Point(-1, 0) ELSE Point(1, 0)
                    ELSE IF hall.length < 0 THEN Point(0, -1) ELSE Point(0, 1)
    IN UNION {line2d_bresenham(PointAdd(hall.start, d), PointAdd(end, d)) :
                 d \in side_wall_starts}
         \cup {PointAdd(hall.start, start_wall), PointAdd(end, end_wall)}

diagonals == {Point(1, 1), Point(1, -1), Point(-1, 1), Point(-1, -1)}

Hall_borders(hall) ==
    Hall_walls(hall)
        \cup {PointAdd(pt, d) : pt \in {hall.start, Hall_endpoint(hall)}, d \in diagonals}

\* Room for Hall: mirror, shift, rotate_right, rotate_left
Hall_mirror(hall) == [hall EXCEPT !.start = Point(-hall.start.x, hall.start.y)]
Hall_shift(hall, offset) == [hall EXCEPT !.start = PointAdd(hall.start, offset)]
Hall_rotate_right(hall) ==
    IF hall.horizontal
    THEN [hall EXCEPT !.start = Point(-hall.start.y, hall.start.x), !.horizontal = FALSE]
    ELSE [hall EXCEPT !.start = Point(-hall.start.y, hall.start.x), !.horizontal = TRUE,
                      !.length = -hall.length]
Hall_rotate_left(hall) ==
    IF hall.horizontal
    THEN [hall EXCEPT !.start = Point(hall.start.y, -hall.start.x), !.horizontal = FALSE,
                      !.length = -hall.length]
    ELSE [hall EXCEPT !.start = Point(hall.start.y, -hall.start.x), !.horizontal = TRUE]

\* CompoundRoom::new, from_room
CompoundRoom_new == [kind |-> "CompoundRoom", rooms |-> <<>>, connections |-> {}]
CompoundRoom_from_room(rm) == [kind |-> "CompoundRoom", rooms |-> <<rm>>, connections |-> {}]

\* trait Room, dispatched on the shape: a CompoundRoom folds over its members.
RECURSIVE floor(_)
floor(rm) ==
    CASE rm.kind = "RectRoom" -> RectRoom_floor(rm)
      [] rm.kind = "Hall" -> Hall_floor(rm)
      [] rm.kind = "CompoundRoom" ->
            UNION {floor(rm.rooms[i]) : i \in 1..Len(rm.rooms)} \cup rm.connections

RECURSIVE walls(_)
walls(rm) ==
    CASE rm.kind = "RectRoom" -> RectRoom_walls(rm)
      [] rm.kind = "Hall" -> Hall_walls(rm)
      [] rm.kind = "CompoundRoom" -> UNION {walls(rm.rooms[i]) : i \in 1..Len(rm.rooms)}

RECURSIVE borders(_)
borders(rm) ==
    CASE rm.kind = "RectRoom" -> RectRoom_borders(rm)
      [] rm.kind = "Hall" -> Hall_borders(rm)
      [] rm.kind = "CompoundRoom" ->
            UNION {borders(rm.rooms[i]) : i \in 1..Len(rm.rooms)} \ floor(rm)

RECURSIVE all_points(_)
all_points(rm) ==
    IF rm.kind = "CompoundRoom"
    THEN UNION {all_points(rm.rooms[i]) : i \in 1..Len(rm.rooms)}
    ELSE floor(rm) \cup borders(rm)

RECURSIVE point_in_room(_, _)
point_in_room(rm, pt) ==
    IF rm.kind = "CompoundRoom"
    THEN \E i \in 1..Len(rm.rooms) : point_in_room(rm.rooms[i], pt)
    ELSE pt \in floor(rm)

RECURSIVE mirror(_)
mirror(rm) ==
    CASE rm.kind = "RectRoom" -> RectRoom_mirror(rm)
      [] rm.kind = "Hall" -> Hall_mirror(rm)
      [] rm.kind = "CompoundRoom" ->
            [rm EXCEPT !.rooms = [i \in 1..Len(rm.rooms) |-> mirror(rm.rooms[i])]]

RECURSIVE rotate_left(_)
rotate_left(rm) ==
    CASE rm.kind = "RectRoom" -> RectRoom_rotate_left(rm)
      [] rm.kind = "Hall" -> Hall_rotate_left(rm)
      [] rm.kind = "CompoundRoom" ->
            [rm EXCEPT !.rooms = [i \in 1..Len(rm.rooms) |-> rotate_left(rm.rooms[i])]]

RECURSIVE rotate_right(_)
rotate_right(rm) ==
    CASE rm.kind = "RectRoom" -> RectRoom_rotate_right(rm)
      [] rm.kind = "Hall" -> Hall_rotate_right(rm)
      [] rm.kind = "CompoundRoom" ->
            [rm EXCEPT !.rooms = [i \in 1..Len(rm.rooms) |-> rotate_right(rm.rooms[i])]]

RECURSIVE shift(_, _)
shift(rm, offset) ==
    CASE rm.kind = "RectRoom" -> RectRoom_shift(rm, offset)
      [] rm.kind = "Hall" -> Hall_shift(rm, offset)
      [] rm.kind = "CompoundRoom" ->
            [rm EXCEPT !.rooms = [i \in 1..Len(rm.rooms) |-> shift(rm.rooms[i], offset)]]

\* A collision test that looks at the floors only.
collides_with_floors_only(self, other) == floor(self) \cap floor(other) # {}

\* A collision test that looks from one side only.
collides_with_one_sided(self, other) == floor(self) \cap all_points(other) # {}

\* RoomCollisions::collides_with
collides_with(self, other) ==
    ~(/\ floor(self) \cap all_points(other) = {}
      /\ all_points(self) \cap floor(other) = {})

\* RoomCollisions::connects_to is called by attach_room and fit_room; its
\* definition is the specification's: the shapes do not collide and their
\* wall sets intersect.
connects_to(self, other) ==
    ~collides_with(self, other) /\ walls(self) \cap walls(other) # {}

\* attach_room that pushes the room without recording the connection point.
attach_room_unrecorded(self, rm, connection) ==
    IF connection \in walls(self) /\ connects_to(self, rm)
    THEN [ok |-> TRUE, self |-> [self EXCEPT !.rooms = Append(self.rooms, rm)]]
    ELSE [ok |-> FALSE, self |-> self]

\* attach_room without the test of the connection point.
attach_room_anywhere(self, rm, connection) ==
    IF connects_to(self, rm)
    THEN [ok |-> TRUE,
          self |-> [self EXCEPT !.rooms = Append(self.rooms, rm),
                                !.connections = self.connections \cup {connection}]]
    ELSE [ok |-> FALSE, self |-> self]

\* CompoundRoom::attach_room: what it returns and the compound afterwards.
attach_room(self, rm, connection) ==
    IF connection \in walls(self) /\ connects_to(self, rm)
    THEN [ok |-> TRUE,
          self |-> [self EXCEPT !.rooms = Append(self.rooms, rm),
                                !.connections = self.connections \cup {connection}]]
    ELSE [ok |-> FALSE, self |-> self]

\* ------------------------------------------------------- rooms: the moves
MaxRoomW == 2
MaxRoomH == 1
MaxHallLength == 1
MaxShift == 3
MaxDrop == 1
MaxMembers == 2

\* The shapes the constructors make.
NewShapes ==
    {RectRoom_new(w, h) : w \in 1..MaxRoomW, h \in 1..MaxRoomH}
        \cup {Hall_new_horizontal(MaxHallLength, 1), Hall_new_vertical(-MaxHallLength, 1)}
Offsets == {Point(x, y) : x \in (-MaxShift)..MaxShift, y \in (-MaxDrop)..MaxDrop}
RoomOffsets == {Point(0, 0), Point(MaxDrop, -MaxShift)}

\* A shape shifted from its origin, on its own or as the first member of a
\* compound, and a second shape shifted somewhere around it.
RoomInit ==
    /\ GenIdle
    /\ MapIdle
    /\ TileIdle
    /\ LabIdle
    /\ \E rm \in NewShapes, offset \in RoomOffsets :
          room \in {shift(rm, offset), shift(CompoundRoom_from_room(rm), offset)}
    /\ other_room \in {shift(rm, offset) : rm \in NewShapes, offset \in Offsets}
    /\ room_log = [op |-> "new"]

\* A rotation is logged with the shape before the first of a run of
\* rotations in one direction, and how many of the run were made.
Rotated(op) ==
    IF room_log.op = op /\ room_log.count < 4
    THEN [op |-> op, count |-> room_log.count + 1, before |-> room_log.before]
    ELSE [op |-> op, count |-> 1, before |-> room]

RotateLeft ==
    /\ room' = rotate_left(room)
    /\ room_log' = Rotated("rotate_left")
    /\ UNCHANGED <<other_room, otherThanRoom>>

RotateRight ==
    /\ room' = rotate_right(room)
    /\ room_log' = Rotated("rotate_right")
    /\ UNCHANGED <<other_room, otherThanRoom>>

\* collides_with and connects_to, asked both ways round.
Compare ==
    /\ room_log' = [op |-> "collides_with",
                    collides |-> collides_with(room, other_room),
                    collides_swapped |-> collides_with(other_room, room),
                    connects |-> connects_to(room, other_room),
                    connects_swapped |-> connects_to(other_room, room)]
    /\ UNCHANGED <<room, other_room, otherThanRoom>>

\* attach_room of the second shape at a wall or floor cell of the compound.
AttachRoom ==
    /\ room.kind = "CompoundRoom"
    /\ Len(room.rooms) < MaxMembers
    /\ \E connection \in walls(room) \cup floor(room) :
          LET attached == attach_room(room, other_room, connection)
          IN /\ room' = attached.self
             /\ room_log' = [op |-> "attach_room", ok |-> attached.ok, before |-> room,
                             connection |-> connection]
    /\ UNCHANGED <<other_room, otherThanRoom>>

RoomNext == RotateLeft \/ RotateRight \/ Compare \/ AttachRoom

RoomSpec == RoomInit /\ [][RoomNext]_vars

\* ------------------------------------------------------------ the generator
\* RectRoom::entries is called by fit_room through CompoundRoom::entries; its
\* definition is the specification's: the wall cells aligned with the
\* rectangle's center axis.
RectRoom_entries(rm) ==
    LET r == rm.internal
        cx == (r.x1 + r.x2) \div 2
        cy == (r.y1 + r.y2) \div 2
    IN {Point(cx, r.y1 - 1), Point(cx, r.y2 + 1), Point(r.x1 - 1, cy), Point(r.x2 + 1, cy)}

\* CompoundRoom::entries
RECURSIVE entries(_)
entries(rm) ==
    IF rm.kind = "CompoundRoom"
    THEN UNION {entries(rm.rooms[i]) : i \in 1..Len(rm.rooms)}
    ELSE RectRoom_entries(rm)

\* MapGenerator2D::new
MapGenerator2D_new(width, height) ==
    [map |-> Labyrinth2D_new(width, height),
     rooms |-> CompoundRoom_new,
     dimensions |-> Point(width, height),
     dirty |-> FALSE]

\* MapGenerator2D::flush_map
flush_map(mg) ==
    [mg EXCEPT !.map = Labyrinth2D_new_from_dims(mg.dimensions),
               !.rooms = CompoundRoom_new,
               !.dirty = TRUE]

\* MapGenerator2D::add_compound_room
add_compound_room(mg, croom) == [mg EXCEPT !.rooms = croom]

\* MapGenerator2D::update_rooms: the floor cells of the member rooms that lie
\* inside the map become floor tiles.
update_rooms(mg) ==
    IF mg.dirty
    THEN LET floortiles == UNION {floor(mg.rooms.rooms[i]) : i \in 1..Len(mg.rooms.rooms)}
             written == {point2d_to_index(mg.dimensions, pt) :
                            pt \in {ft \in floortiles : in_bounds(mg.dimensions, ft)}}
         IN [mg EXCEPT !.map.tiles =
                [i \in DOMAIN mg.map.tiles |->
                    IF i \in written THEN Tile_floor ELSE mg.map.tiles[i]]]
    ELSE mg

\* room_in_bounds
room_in_bounds(mg, rm) == \A pt \in floor(rm) : in_bounds(mg.map.dimensions, pt)

\* The budget of build_rooms_and_corridors and fit_room.
n_rooms == 20

\* A fit_room that picks one wall cell more.
attempts_and_one == 10 + 1

attempts == 10
rotations == 5


\* fit_room, for one picked wall cell: the room is turned right and shifted
\* onto the cell, up to five times, until it connects and lies in bounds.
RECURSIVE fit_rotations(_, _, _, _, _)
fit_rotations(mg, rooms, newroom, attach_point_old, left) ==
    IF left = 0
    THEN [found |-> FALSE, newroom |-> newroom, rotated |-> 0]
    ELSE LET placed == shift(rotate_right(newroom), attach_point_old)
         IN IF connects_to(rooms, placed) /\ room_in_bounds(mg, placed)
            THEN [found |-> TRUE, newroom |-> placed, rotated |-> 1]
            ELSE LET rest == fit_rotations(mg, rooms, shift(placed, PointNeg(attach_point_old)),
                                           attach_point_old, left - 1)
                 IN [rest EXCEPT !.rotated = @ + 1]

\* The first room of build_rooms_and_corridors: five by five, about the middle.
firstroom(mg) ==
    shift(RectRoom_new(5, 5),
          PointAdd(Point(mg.map.dimensions.x \div 2, mg.map.dimensions.y \div 2), Point(-2, -2)))

GenW == 15
GenH == 3
MaxNewW == 3
MaxNewH == 3

GenInit ==
    /\ MapIdle
    /\ TileIdle
    /\ LabIdle
    /\ RoomIdle
    /\ mapgen = MapGenerator2D_new(GenW, GenH)
    /\ growth = [pc |-> "idle"]
    /\ gen_log = [op |-> "none"]

\* generate(Basic), up to the loop: the map is flushed and the first room made.
Generate ==
    /\ growth.pc \in {"idle", "done"}
    /\ mapgen' = flush_map(mapgen)
    /\ growth' = [pc |-> "request", rooms |-> CompoundRoom_from_room(firstroom(mapgen')),
                  requests |-> 0]
    /\ UNCHANGED <<gen_log, otherThanGen>>

\* One turn of the loop begins: a room of random size is made, and fit_room
\* picks one of its entries and brings it to the origin.
Request ==
    /\ growth.pc = "request"
    /\ growth.requests < n_rooms
    /\ \E w \in 3..MaxNewW, h \in 3..MaxNewH :
          LET newroom == CompoundRoom_from_room(RectRoom_new(w, h))
          IN \E attach_point_new \in entries(newroom) :
                growth' = [pc |-> "fit", rooms |-> growth.rooms,
                           requests |-> growth.requests + 1,
                           newroom |-> shift(newroom, PointNeg(attach_point_new)),
                           picks |-> 0, rotated |-> 0]
    /\ UNCHANGED <<mapgen, gen_log, otherThanGen>>

\* One wall pick of fit_room. A room that fits is attached; when the picks
\* are used up the loop is left.
Pick ==
    /\ growth.pc = "fit"
    /\ growth.picks < attempts
    /\ \E attach_point_old \in walls(growth.rooms) :
          LET fit == fit_rotations(mapgen, growth.rooms, growth.newroom, attach_point_old,
                                   rotations)
              attached == attach_room(growth.rooms, fit.newroom, attach_point_old)
          IN growth' =
                IF fit.found
                THEN [pc |-> IF growth.requests < n_rooms THEN "request" ELSE "commit",
                      rooms |-> attached.self, requests |-> growth.requests,
                      attached |-> attached.ok, picks |-> growth.picks + 1,
                      rotated |-> fit.rotated]
                ELSE [growth EXCEPT !.pc = IF growth.picks + 1 < attempts THEN "fit" ELSE "commit",
                                    !.newroom = fit.newroom,
                                    !.picks = @ + 1,
                                    !.rotated = fit.rotated]
    /\ UNCHANGED <<mapgen, gen_log, otherThanGen>>

\* The end of build_rooms_and_corridors and of generate: the rooms are handed
\* to the generator and written to the map, and the map is returned.
Commit ==
    /\ growth.pc = "commit"
    /\ mapgen' = update_rooms(add_compound_room(mapgen, growth.rooms))
    /\ growth' = [pc |-> "done", requests |-> growth.requests, picks |-> growth.picks,
                  result |-> Ok(mapgen'.map)]
    /\ UNCHANGED <<gen_log, otherThanGen>>

GenNext == Generate \/ Request \/ Pick \/ Commit

GenSpec == GenInit /\ [][GenNext]_vars


\* ------------------------------------------- MapGenerator2D: room upkeep
\* MapGenerator2D::walled_map
walled_map(mg) == [mg EXCEPT !.map = Labyrinth2D_new_walled_from_dims(mg.dimensions)]

\* MapGenerator2D::add_room
add_room(mg, rm) == [mg EXCEPT !.rooms.rooms = Append(@, rm), !.dirty = TRUE]

\* MapGenerator2D::extend_rooms
extend_rooms(mg, newrooms) == [mg EXCEPT !.rooms.rooms = @ \o newrooms, !.dirty = TRUE]

\* MapGenerator2D::attach_room: the compound's answer is dropped.
MapGenerator2D_attach_room(mg, rm, connection) ==
    [mg EXCEPT !.rooms = attach_room(mg.rooms, rm, connection).self, !.dirty = TRUE]

\* The cells update_rooms calls set_tile_at on.
update_rooms_written(mg) ==
    IF mg.dirty
    THEN {ft \in UNION {floor(mg.rooms.rooms[i]) : i \in 1..Len(mg.rooms.rooms)} :
             in_bounds(mg.dimensions, ft)}
    ELSE {}

UpdW == 4
UpdH == 2
MaxUpdRooms == 2

\* The rooms handed to the generator: one-cell rooms in and about the grid.
UpdShapes ==
    {shift(RectRoom_new(1, 1), at) : at \in {Point(0, 0), Point(3, 0), Point(-3, -1)}}

\* The generator's room methods are called on a new generator.
UpdInit ==
    /\ MapIdle
    /\ TileIdle
    /\ LabIdle
    /\ RoomIdle
    /\ mapgen = MapGenerator2D_new(UpdW, UpdH)
    /\ growth = NoGrowth
    /\ gen_log = [op |-> "new", changed |-> FALSE, was_changed |-> FALSE, wrote |-> {}]

\* What a call that changes the room set leaves in the log.
RoomsChanged(op) == [op |-> op, changed |-> TRUE, was_changed |-> gen_log.changed, wrote |-> {}]

AddRoom ==
    /\ Len(mapgen.rooms.rooms) < MaxUpdRooms
    /\ \E rm \in UpdShapes : mapgen' = add_room(mapgen, rm)
    /\ gen_log' = RoomsChanged("add_room")
    /\ UNCHANGED <<growth, otherThanGen>>

ExtendRooms ==
    /\ \E newrooms \in {<<>>} \cup {<<rm>> : rm \in UpdShapes} \cup (UpdShapes \X UpdShapes) :
          /\ Len(mapgen.rooms.rooms) + Len(newrooms) <= MaxUpdRooms
          /\ mapgen' = extend_rooms(mapgen, newrooms)
    /\ gen_log' = RoomsChanged("extend_rooms")
    /\ UNCHANGED <<growth, otherThanGen>>

AddCompoundRoom ==
    /\ \E croom \in {CompoundRoom_new} \cup {CompoundRoom_from_room(rm) : rm \in UpdShapes} :
          mapgen' = add_compound_room(mapgen, croom)
    /\ gen_log' = RoomsChanged("add_compound_room")
    /\ UNCHANGED <<growth, otherThanGen>>

GeneratorAttachRoom ==
    /\ Len(mapgen.rooms.rooms) < MaxUpdRooms
    /\ \E rm \in UpdShapes, connection \in walls(mapgen.rooms) \cup {Point(0, 0)} :
          mapgen' = MapGenerator2D_attach_room(mapgen, rm, connection)
    /\ gen_log' = RoomsChanged("attach_room")
    /\ UNCHANGED <<growth, otherThanGen>>

FlushMap ==
    /\ mapgen' = flush_map(mapgen)
    /\ gen_log' = RoomsChanged("flush_map")
    /\ UNCHANGED <<growth, otherThanGen>>

WalledMap ==
    /\ mapgen' = walled_map(mapgen)
    /\ gen_log' = [op |-> "walled_map", changed |-> gen_log.changed,
                   was_changed |-> gen_log.changed, wrote |-> {}]
    /\ UNCHANGED <<growth, otherThanGen>>

UpdateRooms ==
    /\ mapgen' = update_rooms(mapgen)
    /\ gen_log' = [op |-> "update_rooms", changed |-> FALSE, was_changed |-> gen_log.changed,
                   wrote |-> update_rooms_written(mapgen)]
    /\ UNCHANGED <<growth, otherThanGen>>

UpdNext ==
    \/ AddRoom
    \/ ExtendRooms
    \/ AddCompoundRoom
    \/ GeneratorAttachRoom
    \/ FlushMap
    \/ WalledMap
    \/ UpdateRooms

UpdSpec == UpdInit /\ [][UpdNext]_vars

\* ------------------------------------------------- Labyrinth2D: the queries
\* Tile::can_enter as Labyrinth2D calls it, with a bool for an answer: some
\* movement type of the slice can enter the tile. The slices in play hold
\* Walk, Fly and Swim only.
Tile_can_enter(tile, move_types) ==
    \E i \in 1..Len(move_types) :
        CASE move_types[i] = Walk -> tile.walk
          [] move_types[i] = Fly -> tile.fly
          [] move_types[i] = Swim -> tile.swim
          [] OTHER -> FALSE

\* BaseMap::get_available_exits for Labyrinth2D: the 4-neighbours that the
\* movement types left in _filter can enter.
Labyrinth2D_get_available_exits(lab, idx) ==
    LET start == index_to_point2d(lab.dimensions, idx)
        pts == [i \in 1..Len(deltas) |-> PointAdd(start, deltas[i])]
        inb == SelectSeq(pts, LAMBDA pt : in_bounds(lab.dimensions, pt))
        pos == [i \in 1..Len(inb) |-> point2d_to_index(lab.dimensions, inb[i])]
        open == SelectSeq(pos, LAMBDA p : Tile_can_enter(lab.tiles[p], lab.filter))
    IN [i \in 1..Len(open) |-> <<open[i], 1>>]

LabExits(lab) == [i \in Indices(lab.dimensions) |-> Labyrinth2D_get_available_exits(lab, i)]

\* bracket_pathfinding::DijkstraMap::new: the cells reached from the starts
\* through get_available_exits, each with its number of steps; the cells that
\* are left out keep f32::MAX. The depth limit of 1024 is out of reach here.
RECURSIVE Flood(_, _, _, _)
Flood(depth, frontier, reached, exits) ==
    IF frontier = {} THEN reached
    ELSE LET seen == {r[1] : r \in reached} \cup frontier
             next == UNION {Successors(exits, q) : q \in frontier} \ seen
         IN Flood(depth + 1, next, reached \cup {<<q, depth>> : q \in frontier}, exits)

DijkstraMap_new(lab, starts_idx) ==
    Flood(0, {starts_idx[i] : i \in 1..Len(starts_idx)}, {}, LabExits(lab))

\* The _filter that find_path and dijkstra_map leave.
filter_for(move_types) ==
    IF move_types = <<Walk>> \/ move_types = <<>> THEN <<Walk>> ELSE sort(move_types)

\* Labyrinth2D::find_path: the labyrinth afterwards and the path's success.
Labyrinth2D_find_path(lab, start, end, move_types) ==
    LET self == [lab EXCEPT !.filter = filter_for(move_types)]
    IN [self |-> self,
        path |-> a_star_search(point2d_to_index(self.dimensions, start),
                               point2d_to_index(self.dimensions, end), LabExits(self))]

\* Labyrinth2D::dijkstra_map_walk: _filter is read, not set.
Labyrinth2D_dijkstra_map_walk(lab, starts) ==
    DijkstraMap_new(lab, [i \in 1..Len(starts) |-> point2d_to_index(lab.dimensions, starts[i])])

\* Labyrinth2D::dijkstra_map: the labyrinth afterwards and the map.
Labyrinth2D_dijkstra_map(lab, starts, move_types) ==
    LET self == [lab EXCEPT !.filter = filter_for(move_types)]
    IN [self |-> self,
        map |-> IF move_types = <<Walk>> \/ move_types = <<>>
                THEN Labyrinth2D_dijkstra_map_walk(self, starts)
                ELSE DijkstraMap_new(self, [i \in 1..Len(starts) |->
                                               point2d_to_index(self.dimensions, starts[i])])]

\* Labyrinth2D::get_neighbors: the slice becomes _filter as it is.
Labyrinth2D_get_neighbors(lab, loc, move_types) ==
    LET self == [lab EXCEPT !.filter = move_types]
        exits == Labyrinth2D_get_available_exits(self, point2d_to_index(self.dimensions, loc))
    IN [self |-> self,
        neighbors |-> [i \in 1..Len(exits) |-> index_to_point2d(self.dimensions, exits[i][1])]]

\* PartialEq for Labyrinth2D with _filter compared too.
Labyrinth2D_eq_with_filter(a, b) ==
    a.tiles = b.tiles /\ a.dimensions = b.dimensions /\ a.filter = b.filter

\* PartialEq for Labyrinth2D: tiles and dimensions.
Labyrinth2D_eq(a, b) == a.tiles = b.tiles /\ a.dimensions = b.dimensions

QueryW == 3
QueryH == 1

\* The slices the queries are called with.
QuerySlices == {<<>>, <<Walk>>, <<Fly>>, <<Swim, Fly>>}

\* What a query leaves in lab_res: its arguments and its answer.
Queried(op, from, to, move_types, answer) ==
    [op |-> op, from |-> from, to |-> to, move_types |-> move_types, answer |-> answer]

QueryInit ==
    /\ MapIdle
    /\ TileIdle
    /\ RoomIdle
    /\ GenIdle
    /\ labyrinth \in {Labyrinth2D_new(QueryW, QueryH), Labyrinth2D_new_empty(QueryW, QueryH)}
    /\ lab_res = [op |-> "new"]

QuerySetTileAt ==
    \E loc \in Points(labyrinth.dimensions), tile \in {Tile_floor, Tile_wall, Tile_water} :
        /\ labyrinth' = Labyrinth2D_set_tile_at(labyrinth, loc, tile)
        /\ lab_res' = [op |-> "set_tile_at"]
        /\ UNCHANGED otherThanLab

QueryFindPath ==
    \E start \in Points(labyrinth.dimensions), end \in Points(labyrinth.dimensions),
       move_types \in QuerySlices :
        LET found == Labyrinth2D_find_path(labyrinth, start, end, move_types)
        IN /\ labyrinth' = found.self
           /\ lab_res' = Queried("find_path", start, end, move_types, found.path.success)
           /\ UNCHANGED otherThanLab

QueryDijkstraMap ==
    \E start \in Points(labyrinth.dimensions), move_types \in QuerySlices :
        LET made == Labyrinth2D_dijkstra_map(labyrinth, <<start>>, move_types)
        IN /\ labyrinth' = made.self
           /\ lab_res' = Queried("dijkstra_map", start, start, move_types, made.map)
           /\ UNCHANGED otherThanLab

QueryDijkstraMapWalk ==
    \E start \in Points(labyrinth.dimensions) :
        /\ lab_res' = Queried("dijkstra_map_walk", start, start, <<>>,
                              Labyrinth2D_dijkstra_map_walk(labyrinth, <<start>>))
        /\ UNCHANGED <<labyrinth, otherThanLab>>

QueryGetNeighbors ==
    \E loc \in Points(labyrinth.dimensions), move_types \in QuerySlices :
        LET got == Labyrinth2D_get_neighbors(labyrinth, loc, move_types)
        IN /\ labyrinth' = got.self
           /\ lab_res' = Queried("get_neighbors", loc, loc, move_types, got.neighbors)
           /\ UNCHANGED otherThanLab

QueryNext ==
    \/ QuerySetTileAt
    \/ QueryFindPath
    \/ QueryDijkstraMap
    \/ QueryDijkstraMapWalk
    \/ QueryGetNeighbors

QuerySpec == QueryInit /\ [][QueryNext]_vars

\* --------------------------------------------- Labyrinth2D: serialization
\* A string is a sequence of chars; a char is written as a one-symbol string
\* and "U+00E9" stands for a char of two bytes in UTF-8.
utf8_len(c) == IF c = "U+00E9" THEN 2 ELSE 1

\* String::len: the length in bytes.
RECURSIVE str_len(_)
str_len(str) == IF str = <<>> THEN 0 ELSE utf8_len(Head(str)) + str_len(Tail(str))

\* The keys compress hands out: '0'..='9', 'a'..'z' without 'z', 'A'..='Z'.
key_iter ==
    <<"0", "1", "2", "3", "4", "5", "6", "7", "8", "9",
      "a", "b", "c", "d", "e", "f", "g", "h", "i", "j", "k", "l", "m",
      "n", "o", "p", "q", "r", "s", "t", "u", "v", "w", "x", "y",
      "A", "B", "C", "D", "E", "F", "G", "H", "I", "J", "K", "L", "M",
      "N", "O", "P", "Q", "R", "S", "T", "U", "V", "W", "X", "Y", "Z">>

\* The dictionary compress starts from: kind -> (char, Tile).
default_tiledict ==
    [kind \in {"wall", "floor", "water", "lava", "chasm"} |->
        CASE kind = "wall" -> [c |-> "#", tile |-> Tile_wall]
          [] kind = "floor" -> [c |-> ".", tile |-> Tile_floor]
          [] kind = "water" -> [c |-> "~", tile |-> Tile_water]
          [] kind = "lava" -> [c |-> "!", tile |-> Tile_lava]
          [] kind = "chasm" -> [c |-> " ", tile |-> Tile_chasm]]

\* Vec::dedup on the tiles, as a sequence: a tile equal to the one before it
\* is dropped.
dedup(tls) ==
    LET n_tiles == Cardinality(DOMAIN tls)
        kept == {i \in 0..(n_tiles - 1) : i = 0 \/ tls[i] # tls[i - 1]}
        nth(k) == CHOOSE i \in kept : Cardinality({j \in kept : j < i}) = k - 1
    IN [k \in 1..Cardinality(kept) |-> tls[nth(k)]]

\* The loop of compress over the deduplicated tiles: a tile that equals no
\* value of the dictionary takes the next key and is inserted under its kind,
\* in the place of whatever that kind held.
RECURSIVE assign_keys(_, _, _)
assign_keys(tiles_copy, tiledict, used) ==
    IF tiles_copy = <<>> THEN [panic |-> FALSE, tiledict |-> tiledict]
    ELSE LET newtile == Head(tiles_copy)
         IN IF \E kind \in DOMAIN tiledict : tiledict[kind].tile = newtile
            THEN assign_keys(Tail(tiles_copy), tiledict, used)
            ELSE IF used >= Len(key_iter)
                 THEN [panic |-> TRUE, tiledict |-> tiledict]
                 ELSE assign_keys(Tail(tiles_copy),
                                  [kind \in DOMAIN tiledict \cup {newtile.kind} |->
                                      IF kind = newtile.kind
                                      THEN [c |-> key_iter[used + 1], tile |-> newtile]
                                      ELSE tiledict[kind]],
                                  used + 1)

\* Labyrinth2D::rows: the tiles in chunks of dimensions.x, by first index.
rows(lab) ==
    LET n_tiles == Cardinality(DOMAIN lab.tiles)
        width == lab.dimensions.x
        n_rows == (n_tiles + width - 1) \div width
    IN [r \in 1..n_rows |->
           [k \in 1..(IF r * width <= n_tiles THEN width ELSE n_tiles - (r - 1) * width) |->
               lab.tiles[(r - 1) * width + k - 1]]]

\* Labyrinth2D::compress: the row strings and the char -> Tile dictionary.
\* It panics when the keys run out, when a tile's kind is not in the
\* dictionary, and in rows() when the width is 0 (chunks of size 0).
compress(lab) ==
    LET assigned == assign_keys(dedup(lab.tiles), default_tiledict, 0)
        tiledict == assigned.tiledict
        the_rows == rows(lab)
    IN IF assigned.panic \/ lab.dimensions.x = 0
       THEN [panic |-> TRUE, mapstring |-> <<>>, tiledict |-> <<>>]
       ELSE [panic |-> \E r \in DOMAIN the_rows : \E k \in DOMAIN the_rows[r] :
                          the_rows[r][k].kind \notin DOMAIN tiledict,
             mapstring |-> [r \in DOMAIN the_rows |->
                              [k \in DOMAIN the_rows[r] |->
                                  IF the_rows[r][k].kind \in DOMAIN tiledict
                                  THEN tiledict[the_rows[r][k].kind].c ELSE "?"]],
             tiledict |-> [c \in {tiledict[kind].c : kind \in DOMAIN tiledict} |->
                              tiledict[CHOOSE kind \in DOMAIN tiledict :
                                          tiledict[kind].c = c].tile]]

\* What a load ends with: a labyrinth, an error value, or a panic.
Loaded(lab) == [outcome |-> "Ok", grid |-> lab, msg |-> ""]
LoadError(msg) == [outcome |-> "Err", grid |-> NoLabyrinth, msg |-> msg]
LoadPanic(msg) == [outcome |-> "panic", grid |-> NoLabyrinth, msg |-> msg]

RECURSIVE join(_)
join(strs) == IF strs = <<>> THEN <<>> ELSE Head(strs) \o join(Tail(strs))

\* Labyrinth2D::unpack
unpack(mapstring, tiledict) ==
    LET lens == {str_len(mapstring[r]) : r \in DOMAIN mapstring}
        joinedstr == join(mapstring)
    IN IF Cardinality(lens) > 1
       THEN LoadError("Row lengths do not match!")
       ELSE IF Len(mapstring) < 2
       THEN LoadPanic("index out of bounds")
       ELSE IF \E k \in DOMAIN joinedstr : joinedstr[k] \notin DOMAIN tiledict
       THEN LoadError("Tiledict incomplete, could not construct map")
       ELSE Loaded([tiles |-> [i \in 0..(Len(joinedstr) - 1) |-> tiledict[joinedstr[i + 1]]],
                    dimensions |-> Point(str_len(mapstring[2]), Len(mapstring)),
                    filter |-> <<>>])

MaxSerSide == 2
MaxRows == 2
MaxRowLen == 2

\* The tiles the edits write: the default wall and floor, a wall that can be
\* walked through, and two different tiles of the kind "phasewall".
SerTiles ==
    {Tile_wall, Tile_floor, [Tile_wall EXCEPT !.walk = TRUE],
     TileBuilder_kind(Tile_wall, "phasewall"), TileBuilder_kind(Tile_floor, "phasewall")}

\* The row strings and dictionaries handed to unpack.
Symbols == {"#", ".", "U+00E9"}
RowStrings == UNION {[1..len -> Symbols] : len \in 0..MaxRowLen}
MapStrings == UNION {[1..len -> RowStrings] : len \in 0..MaxRows}
TileDicts ==
    {compress(Labyrinth2D_new(1, 1)).tiledict,
     [c \in {"#", "U+00E9"} |-> IF c = "#" THEN Tile_wall ELSE Tile_floor]}

\* A labyrinth has been constructed, or a mapstring and a dictionary wait to
\* be unpacked.
SerInit ==
    /\ MapIdle
    /\ TileIdle
    /\ RoomIdle
    /\ GenIdle
    /\ \/ \E width \in 1..MaxSerSide, height \in 1..MaxSerSide :
             /\ labyrinth \in {Labyrinth2D_new(width, height),
                               Labyrinth2D_new_empty(width, height),
                               Labyrinth2D_new_walled(width, height)}
             /\ lab_res = [op |-> "new"]
       \/ \E mapstring \in MapStrings, tiledict \in TileDicts :
             /\ labyrinth = NoLabyrinth
             /\ lab_res = [op |-> "input", mapstring |-> mapstring, tiledict |-> tiledict]

\* Deserialize: visit_map hands the two fields to unpack.
Unpack ==
    /\ lab_res.op = "input"
    /\ LET outcome == unpack(lab_res.mapstring, lab_res.tiledict)
       IN /\ labyrinth' = IF outcome.outcome = "Ok" THEN outcome.grid ELSE labyrinth
          /\ lab_res' = [op |-> "unpack", mapstring |-> lab_res.mapstring,
                         tiledict |-> lab_res.tiledict, outcome |-> outcome]
    /\ UNCHANGED otherThanLab

SerSetTileAt ==
    /\ lab_res.op # "input"
    /\ \E loc \in Points(labyrinth.dimensions), tile \in SerTiles :
          /\ point2d_to_index(labyrinth.dimensions, loc) \in DOMAIN labyrinth.tiles
          /\ labyrinth' = Labyrinth2D_set_tile_at(labyrinth, loc, tile)
          /\ lab_res' = [op |-> "set_tile_at"]
    /\ UNCHANGED otherThanLab

\* Serialize, then Deserialize what it wrote.
RoundTrip ==
    /\ lab_res.op # "input"
    /\ labyrinth # NoLabyrinth
    /\ LET packed == compress(labyrinth)
       IN lab_res' = [op |-> "round_trip", packed |-> packed,
                      outcome |-> IF packed.panic THEN LoadPanic("compress")
                                  ELSE unpack(packed.mapstring, packed.tiledict)]
    /\ UNCHANGED <<labyrinth, otherThanLab>>

SerNext == Unpack \/ SerSetTileAt \/ RoundTrip

SerSpec == SerInit /\ [][SerNext]_vars

\* ------------------------------------------------------------ properties
SeqToSet(s) == {s[i] : i \in 1..Len(s)}
Occurrences(s, m) == Cardinality({i \in 1..Len(s) : s[i] = m})
IsPermutation(s, t) ==
    Len(s) = Len(t) /\ \A m \in MoveTypes : Occurrences(s, m) = Occurrences(t, m)

\* The movement types a tile grants.
Access(t) ==
    {m \in {Walk} : t.walk} \cup {m \in {Fly} : t.fly} \cup {m \in {Swim} : t.swim}
        \cup {Custom(n) : n \in {x \in Names : t.other_movement[x] = "true"}}

\* A tile can be entered under a set of capabilities when the two meet.
Enterable(t, capset) == capset \cap Access(t) # {}

\* The projection of the current tiles for a slice of capabilities.
ProjectionOf(k) ==
    [opaque |-> [i \in Indices(dimensions) |-> tiles[i].opaque],
     enterable |-> [i \in Indices(dimensions) |-> Enterable(tiles[i], SeqToSet(k))],
     dimensions |-> dimensions]

QueryOps == {"find_path", "dijkstra_map"}
WalkOps == {"find_path_walk", "dijkstra_map_walk"}

\* The end can be reached from the start by 4-directional steps, each into
\* an in-bounds tile that can be entered under the capabilities.
Adjacent(p, q) ==
    \/ (p.x = q.x /\ (p.y = q.y + 1 \/ q.y = p.y + 1))
    \/ (p.y = q.y /\ (p.x = q.x + 1 \/ q.x = p.x + 1))
TileAt(p) == tiles[p.y * dimensions.x + p.x]
RECURSIVE ReachedFrom(_, _)
ReachedFrom(seen, capset) ==
    LET more == {q \in Points(dimensions) :
                    /\ Enterable(TileAt(q), capset)
                    /\ \E p \in seen : Adjacent(p, q)}
    IN IF more \subseteq seen THEN seen ELSE ReachedFrom(seen \cup more, capset)
PathExists(start, end, capset) == end \in ReachedFrom({start}, capset)

\* C1: every cached projection is the projection of the current tiles for its
\* key (enterable[i] = tile i can be entered under the key, opaque[i] = the
\* opacity of tile i, same dimensions), and the projection a query searched
\* is the projection of the current tiles for the slice it was given.
C1_CacheMatchesTiles ==
    /\ \A k \in DOMAIN pathfinding_cache : pathfinding_cache[k] = ProjectionOf(k)
    /\ (res.op \in QueryOps /\ res.ok /\ res.proj # NoProj)
          => res.proj = ProjectionOf(res.move_types)

\* An entry is cached for an edited map, with tiles it allows and tiles it does not.
C1_Witness ==
    /\ tiles # built
    /\ \E k \in DOMAIN pathfinding_cache :
          /\ \E i \in Indices(dimensions) : pathfinding_cache[k].enterable[i]
          /\ \E i \in Indices(dimensions) : ~pathfinding_cache[k].enterable[i]

\* C2: after any mutator (set_tile_at, set_floor, set_wall, set_water,
\* set_lava) the cache is empty, whether or not the stored tile changed.
C2_EditEmptiesCache == res.op = "set_tile_at" => DOMAIN pathfinding_cache = {}

\* A mutator stored the tile that was already there while the cache held entries.
C2_Witness == res.op = "set_tile_at" /\ res.had > 0 /\ ~res.changed

\* C3: the number of cache entries is the number of distinct capability sets,
\* other than {Walk}, queried since the last edit.
C3_EntriesCountSets ==
    Cardinality(DOMAIN pathfinding_cache)
        = Cardinality({SeqToSet(q) : q \in queried} \ {{Walk}})

C6_KeysDeduplicated ==
    \A k1, k2 \in DOMAIN pathfinding_cache : SeqToSet(k1) = SeqToSet(k2) => k1 = k2

\* C7: find_path with an empty slice is a success, adds no cache entry and
\* finds what find_path with [Walk] finds.
C7_EmptyDefaultsToWalk ==
    (res.op = "find_path" /\ res.move_types = <<>>)
        => /\ res.ok
           /\ <<>> \notin DOMAIN pathfinding_cache
           /\ res.success = PathExists(res.start, res.end, {Walk})

\* C8: can_enter answers true exactly when the capabilities meet the tile's
\* access set, also for Custom names the tile was never given.
C8_CanEnterIsIntersection ==
    entered # NotCalled
        => entered.ok /\ (entered.val <=> Enterable(this_tile, SeqToSet(asked)))

\* C9: a query whose slice is not in the cache returns a result and leaves
\* its projection in the cache.
C9_MissNeverErrors ==
    (res.op \in QueryOps /\ res.move_types # <<Walk>>)
        => res.ok /\ \E k \in DOMAIN pathfinding_cache : IsPermutation(k, res.move_types)

\* C10: find_path returns a success exactly when the end can be reached
\* from the start, and success = false, never an error, when it cannot.
C10_PathIffReachable ==
    res.op = "find_path"
        => res.ok /\ (res.success <=> PathExists(res.start, res.end, SeqToSet(res.move_types)))

\* For slices of built-in movement types find_path does find exactly the
\* reachable ends.
BuiltInPathIffReachable ==
    (res.op = "find_path" /\ res.move_types # <<>>
        /\ \A i \in 1..Len(res.move_types) : res.move_types[i].tag # "Custom")
        => res.ok /\ (res.success <=> PathExists(res.start, res.end, SeqToSet(res.move_types)))

\* The indices of the cells next to cell idx in one of the four directions,
\* inside the grid, whose tile can be entered under the capabilities.
ExitOps == {"Map::get_available_exits", "MapInternal::get_available_exits"}
EnterableNeighbours(idx, capset) ==
    {q.y * dimensions.x + q.x :
        q \in {p \in Points(dimensions) :
                  /\ Adjacent(Point(idx % dimensions.x, idx \div dimensions.x), p)
                  /\ Enterable(TileAt(p), capset)}}

\* C11: neighbour expansion on the Grid and on a projection returns exactly
\* the cells 4-directionally adjacent to the index, inside the bounds and
\* enterable under the capabilities, each once and with step cost 1.
C11_ExitsAreEnterableNeighbours ==
    res.op \in ExitOps =>
        /\ SeqToSet(res.exits)
              = {<<i, 1>> : i \in EnterableNeighbours(res.idx, SeqToSet(res.move_types))}
        /\ Len(res.exits) = Cardinality(SeqToSet(res.exits))

\* A projection was expanded at a cell of the last column of the first row,
\* whose right neighbour is outside, with an enterable and a non-enterable
\* neighbour inside.
C11_Witness ==
    /\ res.op = "MapInternal::get_available_exits"
    /\ res.idx = dimensions.x - 1
    /\ Len(res.exits) = 1
    /\ Enterable(tiles[dimensions.x], SeqToSet(res.move_types))

\* A capability with its Custom name in lowercase.
Fold(m) == IF m.tag = "Custom" THEN Custom(to_lowercase(m.name)) ELSE m
FoldSeq(s) == [i \in 1..Len(s) |-> Fold(s[i])]

\* C12: Custom names compare without regard to case: a capability equals
\* its lowercase form, can_enter answers the same for a slice and for its
\* lowercase form on every tile, and both have the same cache key.
C12_CustomNamesIgnoreCase ==
    entered # NotCalled =>
        /\ \A i \in 1..Len(asked) : asked[i] = Fold(asked[i])
        /\ entered.ok = can_enter(this_tile, FoldSeq(asked)).ok
        /\ entered.val = can_enter(this_tile, FoldSeq(asked)).val
        /\ CacheKey(asked) = CacheKey(FoldSeq(asked))

\* C13: new_walled(w, h), for w and h of at least 2, has a wall at (x, y)
\* exactly when x = 0, x = w - 1, y = 0 or y = h - 1, and a floor elsewhere.
C13_NewWalledRing ==
    lab_res.op = "new_walled" =>
        /\ labyrinth.dimensions = Point(lab_res.width, lab_res.height)
        /\ \A x \in 0..(lab_res.width - 1), y \in 0..(lab_res.height - 1) :
              labyrinth.tiles[y * lab_res.width + x]
                 = IF x = 0 \/ x = lab_res.width - 1 \/ y = 0 \/ y = lab_res.height - 1
                   THEN Tile_wall
                   ELSE Tile_floor

\* The same for square grids only.
SquareNewWalledRing ==
    (lab_res.op = "new_walled" /\ lab_res.width = lab_res.height) =>
        \A x \in 0..(lab_res.width - 1), y \in 0..(lab_res.height - 1) :
            labyrinth.tiles[y * lab_res.width + x]
               = IF x = 0 \/ x = lab_res.width - 1 \/ y = 0 \/ y = lab_res.height - 1
                 THEN Tile_wall
                 ELSE Tile_floor


\* ---------------------------------------------------------------- rooms
Rotations == {"rotate_left", "rotate_right"}

\* RectRoom validity, as the tests' rectroom_is_valid asserts it.
rectroom_is_valid(rm) == rm.internal.x1 < rm.internal.x2 /\ rm.internal.y1 < rm.internal.y2

\* C14: four rotate_left, or four rotate_right, of a RectRoom, a Hall or a
\* CompoundRoom, wherever it lies, bring floor(), walls() and borders() back
\* to the sets before the first rotation, and a RectRoom is a valid rectangle
\* (x1 < x2 and y1 < y2) after every one of the rotations.
C14_FourRotationsRestore ==
    room_log.op \in Rotations =>
        /\ room_log.count = 4 =>
              /\ floor(room) = floor(room_log.before)
              /\ walls(room) = walls(room_log.before)
              /\ borders(room) = borders(room_log.before)
        /\ room.kind = "RectRoom" => rectroom_is_valid(room)

\* A compound of two members, off the origin, turned four times.
C14_Witness ==
    /\ room_log.op = "rotate_left"
    /\ room_log.count = 4
    /\ room.kind = "CompoundRoom"
    /\ Len(room.rooms) = 2
    /\ room.connections # {}
    /\ floor(rotate_left(room)) # floor(room)


\* C15: for every room shape (a RectRoom, a Hall, a CompoundRoom after any
\* number of successful attach_room calls) walls() is a subset of borders().
C15_WallsInsideBorders == walls(room) \subseteq borders(room)

\* What does hold: the walls of a RectRoom and of a Hall are among its borders.
PlainWallsInsideBorders ==
    /\ room.kind # "CompoundRoom" => walls(room) \subseteq borders(room)
    /\ walls(other_room) \subseteq borders(other_room)


\* Two RectRooms have been compared.
RectRoomsCompared ==
    room_log.op = "collides_with" /\ room.kind = "RectRoom" /\ other_room.kind = "RectRoom"

\* Neither room's floor meets the other's floor or border.
FloorsApart(a, b) ==
    floor(a) \cap all_points(b) = {} /\ floor(b) \cap all_points(a) = {}

\* C16: of two RectRooms, those whose floors overlap collide; those that share
\* a wall cell while neither floor meets the other's floor or border connect
\* and do not collide; and collides_with and connects_to answer the same with
\* the two rooms swapped.
C16_RectRoomsCollideOrConnect ==
    RectRoomsCompared =>
        /\ floor(room) \cap floor(other_room) # {} => room_log.collides
        /\ (walls(room) \cap walls(other_room) # {} /\ FloorsApart(room, other_room)) =>
              room_log.connects /\ ~room_log.collides
        /\ room_log.collides = room_log.collides_swapped
        /\ room_log.connects = room_log.connects_swapped

\* Two RectRooms that share a wall cell and nothing else, compared.
C16_Witness ==
    /\ RectRoomsCompared
    /\ walls(room) \cap walls(other_room) # {}
    /\ FloorsApart(room, other_room)
    /\ room_log.connects


\* attach_room has just been called with a point of the compound's walls
\* while the compound connected to the shape.
AttachAccepted ==
    /\ room_log.connection \in walls(room_log.before)
    /\ connects_to(room_log.before, other_room)

\* C17: attach_room(shape, p) returns true, appends the shape as the last
\* member and records p as a connection point exactly when p is in the
\* compound's wall set and the compound connects to the shape; otherwise it
\* returns false and leaves the members and the connection points as they were.
C17_AttachIffWallAndConnects ==
    room_log.op = "attach_room" =>
        /\ room_log.ok = AttachAccepted
        /\ IF AttachAccepted
           THEN /\ room.rooms = Append(room_log.before.rooms, other_room)
                /\ room.connections = room_log.before.connections \cup {room_log.connection}
           ELSE /\ room.rooms = room_log.before.rooms
                /\ room.connections = room_log.before.connections

\* A shape attached at a wall cell of a compound it connects to.
C17_Witness ==
    /\ room_log.op = "attach_room"
    /\ room_log.ok
    /\ Len(room.rooms) = 2
    /\ room.rooms[2] = other_room
    /\ room_log.connection \in room.connections


\* ------------------------------------------------------------ the generator
\* A generate call has returned.
Generated == growth.pc = "done"

\* The members of the compound the generator holds.
Members == {mapgen.rooms.rooms[i] : i \in 1..Len(mapgen.rooms.rooms)}

\* The cells of the returned map that are floor tiles.
CommittedFloor ==
    {index_to_point2d(mapgen.dimensions, i) :
        i \in {j \in DOMAIN mapgen.map.tiles : mapgen.map.tiles[j] = Tile_floor}}

\* The member shapes of the compound: the generator's once generate has
\* returned, the one under construction before.
GrownRooms ==
    IF Generated THEN mapgen.rooms.rooms
    ELSE IF "rooms" \in DOMAIN growth THEN growth.rooms.rooms ELSE <<>>

\* C18: in a generation run, whatever the random choices are, the floor
\* cells committed to the grid are cells inside its bounds: they are the
\* floor cells of the member shapes that lie in bounds, and every shape that
\* growth attaches has its whole floor in bounds; and no member's floor meets
\* the floor or the borders of another member.
C18_CommittedInBoundsNoCollision ==
    /\ Generated =>
          CommittedFloor =
              {pt \in UNION {floor(rm) : rm \in Members} : in_bounds(mapgen.dimensions, pt)}
    /\ \A i \in 2..Len(GrownRooms) :
          \A pt \in floor(GrownRooms[i]) : in_bounds(mapgen.dimensions, pt)
    /\ \A i, j \in 1..Len(GrownRooms) :
          i # j => floor(GrownRooms[i]) \cap all_points(GrownRooms[j]) = {}

\* A run that attached two rooms to the first one, which itself reaches
\* beyond the grid.
C18_Witness ==
    /\ Generated
    /\ Len(mapgen.rooms.rooms) = 3
    /\ \E pt \in floor(mapgen.rooms.rooms[1]) : ~in_bounds(mapgen.dimensions, pt)
    /\ CommittedFloor # {}


\* The cells of the generator's map a walker can enter.
Walkable ==
    {pt \in Points(mapgen.dimensions) :
        Enterable(mapgen.map.tiles[point2d_to_index(mapgen.dimensions, pt)], {Walk})}

\* The walkable cells joined to a set of cells by steps between 4-neighbours.
RECURSIVE WalkedFrom(_)
WalkedFrom(seen) ==
    LET more == {q \in Walkable : \E p \in seen : Adjacent(p, q)}
    IN IF more \subseteq seen THEN seen ELSE WalkedFrom(seen \cup more)

\* C19: after generate(Basic) the dungeon is connected: every two walkable
\* tiles of the returned grid are joined by a walking path, whatever the
\* random choices were.
C19_DungeonConnected ==
    Generated => \A pt \in Walkable : Walkable \subseteq WalkedFrom({pt})

\* What does hold: a dungeon that is only the first room is connected.
FirstRoomConnected ==
    (Generated /\ Len(mapgen.rooms.rooms) = 1) =>
        \A pt \in Walkable : Walkable \subseteq WalkedFrom({pt})


\* The counters of a generate call stay inside the budget, and a call that has
\* returned has returned Ok with the generator's map and left a compound of
\* 1 to 21 members.
WithinBudget ==
    /\ growth.pc \in {"request", "fit", "commit", "done"} => growth.requests <= 20
    /\ growth.pc \in {"fit", "commit", "done"} => growth.picks <= 10
    /\ "rotated" \in DOMAIN growth => growth.rotated <= 5
    /\ Generated =>
          /\ growth.result = Ok(mapgen.map)
          /\ Len(mapgen.rooms.rooms) >= 1
          /\ Len(mapgen.rooms.rooms) <= 21

\* A call that has not returned has a step to take: a room to request, or a
\* wall cell to pick, or the commit.
CanStep ==
    /\ growth.pc = "request" => growth.requests < 20
    /\ growth.pc = "fit" => growth.picks < 10 /\ walls(growth.rooms) # {}

\* How far a call has come: 12 positions for each request (its start, its
\* wall picks, its end), then the commit and the return.
Position(g) ==
    CASE g.pc = "request" -> g.requests * 12
      [] g.pc = "fit" -> (g.requests - 1) * 12 + 1 + g.picks
      [] g.pc = "commit" -> 20 * 12 + 1
      [] g.pc = "done" -> 20 * 12 + 2
      [] OTHER -> -1

\* C20: every generate(Basic) call ends, within at most 20 room requests of
\* at most 10 wall picks of at most 5 rotations each: every step moves the
\* call on, and a call that has not returned has a step to take; it returns
\* Ok and leaves a compound of at least 1 and at most 21 members; a room that
\* cannot be fitted ends the growth and is not returned as an error.
C20_GenerateEndsWithinBudget ==
    /\ [](WithinBudget /\ CanStep)
    /\ [][\/ growth'.pc = "request" /\ growth'.requests = 0
          \/ Position(growth') > Position(growth)]_vars

\* A call that returned Ok after a room had used up its ten wall picks, five
\* rotations each, without fitting.
C20_Witness ==
    /\ Generated
    /\ growth.picks = 10
    /\ growth.requests = Len(mapgen.rooms.rooms)
    /\ growth.requests >= 2
    /\ growth.result.ok


\* C23: the commit of a generation run writes every in-bounds floor cell of
\* every member shape and every in-bounds connection point as a floor tile:
\* after generate(Basic) each connection point recorded in the compound that
\* lies inside the grid is a floor tile of the returned grid.
C23_CommitWritesConnections ==
    Generated =>
        /\ \A rm \in Members : \A pt \in floor(rm) :
              in_bounds(mapgen.dimensions, pt) => pt \in CommittedFloor
        /\ \A pt \in mapgen.rooms.connections :
              in_bounds(mapgen.dimensions, pt) => pt \in CommittedFloor

\* What does hold: the commit writes the in-bounds floor cells of the members.
CommitWritesMemberFloors ==
    Generated =>
        \A rm \in Members : \A pt \in floor(rm) :
            in_bounds(mapgen.dimensions, pt) => pt \in CommittedFloor


\* C24: in a CompoundRoom, after any sequence of successful attach_room
\* calls, every connection point is in floor() and in neither walls() nor
\* borders(), and floor() and walls() are disjoint.
C24_ConnectionsAreFloorNotWall ==
    room.kind = "CompoundRoom" =>
        /\ \A pt \in room.connections :
              /\ pt \in floor(room)
              /\ pt \notin walls(room)
              /\ pt \notin borders(room)
        /\ floor(room) \cap walls(room) = {}

\* What does hold: a connection point is a floor cell and not a border cell.
ConnectionsAreFloorNotBorders ==
    room.kind = "CompoundRoom" =>
        \A pt \in room.connections : pt \in floor(room) /\ pt \notin borders(room)


\* Two cells that touch: different cells at most one step apart on each axis.
Touches(p, q) == p # q /\ Abs(p.x - q.x) <= 1 /\ Abs(p.y - q.y) <= 1

\* C25: for every Hall (horizontal or vertical, any start, any signed
\* length) the floor is the straight line from start to the computed
\* endpoint and the walls are cells next to that line and not on it: floor()
\* and walls() are disjoint and every wall cell touches a floor cell.
C25_HallWallsBesideFloor ==
    room.kind = "Hall" =>
        /\ floor(room) = line2d_bresenham(room.start, Hall_endpoint(room))
        /\ floor(room) \cap walls(room) = {}
        /\ \A wl \in walls(room) : \E fl \in floor(room) : Touches(wl, fl)

\* What does hold: every wall cell of a Hall is on its floor line or touches it.
HallWallsNearFloor ==
    room.kind = "Hall" =>
        /\ floor(room) = line2d_bresenham(room.start, Hall_endpoint(room))
        /\ \A wl \in walls(room) : \E fl \in floor(room) : wl = fl \/ Touches(wl, fl)


\* The compound a generation run is growing, or has handed to the generator.
GrownCompound ==
    IF Generated THEN mapgen.rooms
    ELSE IF "rooms" \in DOMAIN growth THEN growth.rooms ELSE CompoundRoom_new

\* C30: during build_rooms_and_corridors every room that fit_room returns is
\* accepted by attach_room (the ignored result is always true) with a
\* connection point that was not recorded before, so the compound always
\* holds one connection point less than it has member rooms, and so it does
\* when growth ends.
C30_EveryFitIsAttached ==
    /\ "attached" \in DOMAIN growth => growth.attached
    /\ Len(GrownCompound.rooms) >= 1 =>
          Cardinality(GrownCompound.connections) = Len(GrownCompound.rooms) - 1

\* A run that ended with three members and two connection points.
C30_Witness ==
    /\ Generated
    /\ Len(mapgen.rooms.rooms) = 3
    /\ Cardinality(mapgen.rooms.connections) = 2


\* The members' floor cells inside the generator's grid.
RoomFloorsInBounds ==
    {ft \in UNION {floor(rm) : rm \in Members} : in_bounds(mapgen.dimensions, ft)}

\* C28: update_rooms writes room floors only if the room set has been
\* changed since the previous update_rooms: an update_rooms with no
\* add_room, extend_rooms, attach_room, add_compound_room or flush_map since
\* the one before writes no tile, and every room change (add_compound_room on
\* a new generator too) is written by the next update_rooms.
C28_UpdateWritesOnceAfterChange ==
    gen_log.op = "update_rooms" =>
        /\ ~gen_log.was_changed => gen_log.wrote = {}
        /\ gen_log.was_changed => RoomFloorsInBounds \subseteq CommittedFloor


\* The flow field of an entity that can only walk, on the labyrinth's tiles.
WalkField(lab, start) ==
    Labyrinth2D_dijkstra_map_walk([lab EXCEPT !.filter = <<Walk>>], <<start>>)

\* C27: dijkstra_map_walk(starts) always computes the flow field of an entity
\* that can only walk: its answer depends on the tiles and the start points
\* only, whatever movement types an earlier find_path, dijkstra_map or
\* get_neighbors call on the same Labyrinth2D was given, and with no earlier
\* call too.
C27_WalkFieldIgnoresEarlierQueries ==
    lab_res.op = "dijkstra_map_walk" => lab_res.answer = WalkField(labyrinth, lab_res.from)

\* What does hold: dijkstra_map with [Walk] or with an empty slice answers
\* with the walk field.
DijkstraMapOfWalkIsWalkField ==
    (lab_res.op = "dijkstra_map" /\ lab_res.move_types \in {<<>>, <<Walk>>}) =>
        lab_res.answer = WalkField(labyrinth, lab_res.from)


\* C29: find_path and dijkstra_map, for any capability set and on cache hit
\* or miss, never change a tile or the grid dimensions; the projection cache
\* is the only part of the map they may change, so the grid is the same
\* before and after every query.
C29_QueriesKeepGrid ==
    [][res'.op \in QueryOps => tiles' = tiles /\ dimensions' = dimensions]_vars

\* A dijkstra_map call on an edited map that found its projection in the
\* cache, next to another projection.
C29_Witness ==
    /\ res.op = "dijkstra_map"
    /\ res.ok
    /\ res.had >= 2
    /\ Cardinality(DOMAIN pathfinding_cache) = res.had
    /\ tiles # built

\* The same for Labyrinth2D: find_path, dijkstra_map, dijkstra_map_walk and
\* get_neighbors change _filter at most, and the labyrinth compares equal
\* before and after.
LabQueriesKeepGrid ==
    [][lab_res'.op \in {"find_path", "dijkstra_map", "dijkstra_map_walk", "get_neighbors"} =>
          Labyrinth2D_eq(labyrinth, labyrinth')]_vars


\* ---------------------------------------------------------- serialization
\* A grid of default wall and floor tiles only, whose tiles fill width x
\* height: what new, new_empty, new_walled and the generator's commit make.
PlainGrid(lab) ==
    /\ \A i \in DOMAIN lab.tiles : lab.tiles[i] \in {Tile_wall, Tile_floor}
    /\ lab.dimensions.x >= 1
    /\ Cardinality(DOMAIN lab.tiles) = lab.dimensions.x * lab.dimensions.y

\* A round trip that gave back a labyrinth equal to the one serialized.
RoundTripEqual == lab_res.outcome.outcome = "Ok" /\ Labyrinth2D_eq(lab_res.outcome.grid, labyrinth)

\* C21: for any grid produced by the generator or by the constructors new,
\* new_empty and new_walled, serializing and then deserializing yields a
\* grid equal to the original in dimensions and tile for tile.
C21_RoundTripOfPlainGrids ==
    (lab_res.op = "round_trip" /\ PlainGrid(labyrinth)) => RoundTripEqual

\* What does hold: the round trip of such a grid with two rows or more.
RoundTripOfPlainGridsOfTwoRows ==
    (lab_res.op = "round_trip" /\ PlainGrid(labyrinth) /\ labyrinth.dimensions.y >= 2) =>
        RoundTripEqual

\* The row lengths in bytes of the mapstring handed to unpack.
RowLengths == {str_len(lab_res.mapstring[r]) : r \in DOMAIN lab_res.mapstring}

\* The chars of the mapstring handed to unpack.
RowSymbols == UNION {SeqToSet(lab_res.mapstring[r]) : r \in DOMAIN lab_res.mapstring}

\* C22: for every mapstring and dictionary, unpack returns either a complete
\* grid or an error value: an error, and no grid, whenever the rows have
\* unequal lengths or hold a symbol the dictionary lacks, and a grid it
\* returns always has width x height tiles.
C22_UnpackIsTotal ==
    lab_res.op = "unpack" =>
        /\ lab_res.outcome.outcome \in {"Ok", "Err"}
        /\ (\/ Cardinality(RowLengths) > 1
            \/ ~(RowSymbols \subseteq DOMAIN lab_res.tiledict)) =>
              lab_res.outcome.outcome = "Err" /\ lab_res.outcome.grid = NoLabyrinth
        /\ lab_res.outcome.outcome = "Ok" =>
              Cardinality(DOMAIN lab_res.outcome.grid.tiles)
                 = lab_res.outcome.grid.dimensions.x * lab_res.outcome.grid.dimensions.y

\* What does hold: unpack of two rows or more of one-byte chars.
UnpackOfTwoAsciiRows ==
    (/\ lab_res.op = "unpack"
     /\ Len(lab_res.mapstring) >= 2
     /\ "U+00E9" \notin RowSymbols) =>
        /\ lab_res.outcome.outcome \in {"Ok", "Err"}
        /\ (\/ Cardinality(RowLengths) > 1
            \/ ~(RowSymbols \subseteq DOMAIN lab_res.tiledict)) <=>
              lab_res.outcome.outcome = "Err"
        /\ lab_res.outcome.outcome = "Ok" =>
              Cardinality(DOMAIN lab_res.outcome.grid.tiles)
                 = lab_res.outcome.grid.dimensions.x * lab_res.outcome.grid.dimensions.y

\* The symbols of the compressed form stand for one tile each: two cells
\* with different tiles have different symbols.
DistinctTilesDistinctSymbols ==
    LET the_rows == rows(labyrinth)
        cells == {<<r, k>> \in (1..Len(the_rows)) \X (1..labyrinth.dimensions.x) :
                     k \in DOMAIN the_rows[r]}
    IN \A a, b \in cells :
          the_rows[a[1]][a[2]] # the_rows[b[1]][b[2]] =>
              lab_res.packed.mapstring[a[1]][a[2]] # lab_res.packed.mapstring[b[1]][b[2]]

\* C26: for any grid reached by tile edits, also one where two different
\* tiles carry the same kind or a "wall" or "floor" kind has other
\* properties than the default, serializing and then deserializing yields an
\* equal grid: different tiles never share a symbol of the compressed form
\* and every symbol of the rows is in the dictionary. Stated for the grids of
\* two rows or more.
C26_RoundTripOfEditedGrids ==
    (/\ lab_res.op = "round_trip"
     /\ labyrinth.dimensions.x >= 1
     /\ labyrinth.dimensions.y >= 2
     /\ Cardinality(DOMAIN labyrinth.tiles) = labyrinth.dimensions.x * labyrinth.dimensions.y) =>
        /\ ~lab_res.packed.panic
        /\ DistinctTilesDistinctSymbols
        /\ \A r \in DOMAIN lab_res.packed.mapstring :
              SeqToSet(lab_res.packed.mapstring[r]) \subseteq DOMAIN lab_res.packed.tiledict
        /\ RoundTripEqual

\* What does hold: every symbol of the rows is in the dictionary, and the
\* round trip of a grid whose tiles have a kind each is equal.
RoundTripOfOneTilePerKind ==
    (/\ lab_res.op = "round_trip"
     /\ labyrinth.dimensions.x >= 1
     /\ labyrinth.dimensions.y >= 2
     /\ Cardinality(DOMAIN labyrinth.tiles) = labyrinth.dimensions.x * labyrinth.dimensions.y) =>
        /\ ~lab_res.packed.panic
        /\ \A r \in DOMAIN lab_res.packed.mapstring :
              SeqToSet(lab_res.packed.mapstring[r]) \subseteq DOMAIN lab_res.packed.tiledict
        /\ (\A i, j \in DOMAIN labyrinth.tiles :
               /\ labyrinth.tiles[i].kind = labyrinth.tiles[j].kind =>
                     labyrinth.tiles[i] = labyrinth.tiles[j]
               /\ labyrinth.tiles[i].kind \in DOMAIN default_tiledict =>
                     labyrinth.tiles[i] = default_tiledict[labyrinth.tiles[i].kind].tile)
           => RoundTripEqual
====
